---- MODULE Spec2Model ----
(***************************************************************************)
(* Sales analytics system: the batch pipeline of main.py and the functions *)
(* of utils/ it calls.                                                     *)
(*                                                                         *)
(* Representation.  A Python str is a sequence of one-character strings    *)
(* (<<"P","1">> is 'P1'), so that startswith, lstrip, split and the        *)
(* lexicographic order are computed and not assumed.  A Python float is a  *)
(* record [nan, v]: either NaN (what float('nan') parses to) or the finite *)
(* value v; the finite values used are whole numbers, on which float       *)
(* arithmetic is exact.  A dict is the sequence of its items in insertion  *)
(* order.  None-able arguments are records [some, v].                      *)
(***************************************************************************)
EXTENDS Integers, Sequences, FiniteSets, TLC

VARIABLES
    call,      \* a direct call of one function: its name and arguments
    ret,       \* what the call returned or raised (Pending before)
    session,   \* a sequence of calls on one validated list: the list as it
               \* is now and as it was, and what the calls returned
    \* a run of main(): its environment,
    file,      \* data/sales_data.txt: missing, unreadable, or its lines
    \* its position,
    pc,        \* the statement of main() to run next; "returned" once
               \* main has returned, "propagated" once an exception left it
    \* its locals,
    raw_lines, transactions, filtered_transactions, valid, invalid_count,
    summary, api_products, product_mapping, enriched,
    \* its outputs,
    enriched_file,  \* data/enriched_sales_data.txt
    report,         \* output/sales_report.txt
    message,        \* the closing message printed: "complete", "not_found"
                    \* or "unexpected"; "none" before
    exc,            \* the exception that ended the run, "none" without one
    \* and its history
    calls,          \* how many times each function has been called by main
    handed,         \* the collections passed to analytics, enrichment, report
    validated,      \* the lists passed to validate_and_filter, with results
    last_fetch,     \* the last catalog response and what the fetch did
    jsonErrorCaught \* the installed requests raises a RequestException from
                    \* response.json() (releases before 2.27 do not)

callvars == <<call, ret, session>>
locals == <<raw_lines, transactions, filtered_transactions, valid,
            invalid_count, summary, api_products, product_mapping, enriched>>
outputs == <<enriched_file, report>>
history == <<calls, handed, validated, last_fetch>>
mainvars == <<file, jsonErrorCaught, pc, locals, outputs, message, exc, history>>
vars == <<callvars, mainvars>>

----------------------------------------------------------------------------
(* Bounds of the model *)

\* longest transaction list passed to validate_and_filter
MaxLen == 3
\* longest transaction list passed to an analytics function
MaxAnalyticsLen == 3
\* largest n passed to top_selling_products
MaxN == 2
\* longest transaction list passed to enrich_sales_data
MaxEnrichLen == 2
\* longest product list the catalog returns
MaxCatalog == 2
\* most data lines in the input file
MaxLines == 2
\* largest threshold passed to low_performing_products
MaxThreshold == 3
\* longest validated list a sequence of analytics calls is made on
MaxSessionLen == 2

----------------------------------------------------------------------------
(* Python values *)

Fl(x) == [nan |-> FALSE, v |-> x]
NaN == [nan |-> TRUE, v |-> 0]

\* int * float
MulIF(q, p) == IF p.nan THEN NaN ELSE Fl(q * p.v)
\* float + float
AddF(a, b) == IF a.nan \/ b.nan THEN NaN ELSE Fl(a.v + b.v)
\* comparisons of a float with a number: every comparison with NaN is False
LtF(a, b) == ~a.nan /\ ~b.nan /\ a.v < b.v
LeF(a, b) == ~a.nan /\ ~b.nan /\ a.v <= b.v
GtF(a, b) == ~a.nan /\ ~b.nan /\ a.v > b.v
GeF(a, b) == ~a.nan /\ ~b.nan /\ a.v >= b.v

\* the result of a call that has not run yet
Pending == [state |-> "pending"]

None == [some |-> FALSE, v |-> <<>>]
Some(x) == [some |-> TRUE, v |-> x]
NoAmount == [some |-> FALSE, v |-> Fl(0)]

\* str.startswith(c) for a one-character prefix c
startswith(s, c) == Len(s) > 0 /\ s[1] = c

\* the characters the model uses, in code-point order
Alphabet ==
    <<" ", "+", ",", "-", ".", "0", "1", "2", "3", "4", "5", "6", "7", "8",
      "9", "C", "D", "G", "N", "P", "Q", "S", "T", "W", "X", "_", "a", "f",
      "i", "n", "t", "x", "|">>
Ord(c) == CHOOSE i \in 1..Len(Alphabet) : Alphabet[i] = c

\* str.lower(), on the letters of the alphabet above
LowerChar(c) ==
    CASE c = "C" -> "c" [] c = "D" -> "d" [] c = "G" -> "g"
      [] c = "N" -> "n" [] c = "P" -> "p" [] c = "Q" -> "q"
      [] c = "S" -> "s" [] c = "T" -> "t" [] c = "W" -> "w"
      [] c = "X" -> "x" [] OTHER -> c
lower(s) == [i \in 1..Len(s) |-> LowerChar(s[i])]

\* a < b on str: lexicographic by code point, a proper prefix first
RECURSIVE StrLt(_, _)
StrLt(a, b) ==
    IF b = <<>> THEN FALSE
    ELSE IF a = <<>> THEN TRUE
    ELSE IF Head(a) = Head(b) THEN StrLt(Tail(a), Tail(b))
    ELSE Ord(Head(a)) < Ord(Head(b))

\* sorted(s, key=...) and list.sort: stable.  Before(x, y) is key(x) < key(y),
\* or key(x) > key(y) under reverse=True (which keeps the order of equal
\* keys too).  s[j] precedes s[i] in the result iff its key is before, or
\* neither key is before the other and j < i.
SortRank(s, i, Before(_, _)) ==
    1 + Cardinality({j \in 1..Len(s) :
            j # i /\ (\/ Before(s[j], s[i])
                      \/ (j < i /\ ~Before(s[i], s[j])))})
StableSort(s, Before(_, _)) ==
    [r \in 1..Len(s) |->
        s[CHOOSE i \in 1..Len(s) : SortRank(s, i, Before) = r]]

\* s[:n]
SliceTo(s, n) ==
    IF n >= 0 THEN SubSeq(s, 1, IF n < Len(s) THEN n ELSE Len(s))
    ELSE SubSeq(s, 1, IF Len(s) + n > 0 THEN Len(s) + n ELSE 0)

\* s reversed
Reverse(s) == [i \in 1..Len(s) |-> s[Len(s) + 1 - i]]

\* sorted() and list.sort on float keys, which may be NaN: CPython's
\* algorithm on a list of fewer than 64 items [k |-> key, item |-> ...].
\* The length of the run the list starts with: strictly descending when
\* desc, else non-descending, as the comparison k < k' tells
RECURSIVE RunEnd(_, _, _)
RunEnd(a, i, desc) ==
    IF i < Len(a) /\ (LtF(a[i + 1].k, a[i].k) = desc)
    THEN RunEnd(a, i + 1, desc)
    ELSE i

CountRun(a) ==
    IF Len(a) < 2 THEN [n |-> Len(a), desc |-> FALSE]
    ELSE LET desc == LtF(a[2].k, a[1].k)
         IN  [n |-> RunEnd(a, 2, desc), desc |-> desc]

\* the binary search of the place of pivot in the sorted a[l..r-1]
RECURSIVE BinarySearch(_, _, _, _)
BinarySearch(a, pivot, l, r) ==
    IF l >= r THEN l
    ELSE LET q == l + ((r - l) \div 2)
         IN  IF LtF(pivot.k, a[q].k)
             THEN BinarySearch(a, pivot, l, q)
             ELSE BinarySearch(a, pivot, q + 1, r)

\* binary insertion of a[start], a[start+1], ... into the sorted a[1..start-1]
RECURSIVE BinarySort(_, _)
BinarySort(a, start) ==
    IF start > Len(a) THEN a
    ELSE LET l == BinarySearch(a, a[start], 1, start)
         IN  BinarySort(SubSeq(a, 1, l - 1) \o <<a[start]>>
                          \o SubSeq(a, l, start - 1)
                          \o SubSeq(a, start + 1, Len(a)),
                        start + 1)

\* reverse=True reverses the list, sorts it, and reverses the result
ListSort(a, reverse) ==
    LET a0 == IF reverse THEN Reverse(a) ELSE a
        run == CountRun(a0)
        a1 == IF run.desc
              THEN Reverse(SubSeq(a0, 1, run.n))
                     \o SubSeq(a0, run.n + 1, Len(a0))
              ELSE a0
        a2 == IF Len(a0) < 2 THEN a0 ELSE BinarySort(a1, run.n + 1)
    IN  IF reverse THEN Reverse(a2) ELSE a2

\* str.strip() of blanks, as int() does before it parses
RECURSIVE StripLeft(_)
StripLeft(s) == IF s # <<>> /\ Head(s) = " " THEN StripLeft(Tail(s)) ELSE s
RECURSIVE StripRight(_)
StripRight(s) ==
    IF s # <<>> /\ s[Len(s)] = " "
    THEN StripRight(SubSeq(s, 1, Len(s) - 1)) ELSE s

Digits == {"0", "1", "2", "3", "4", "5", "6", "7", "8", "9"}
DigitValue(c) == Ord(c) - Ord("0")

\* the value of a string of digits and underscores, read after the value acc
RECURSIVE DigitsValue(_, _)
DigitsValue(s, acc) ==
    IF s = <<>> THEN acc
    ELSE IF Head(s) = "_" THEN DigitsValue(Tail(s), acc)
    ELSE DigitsValue(Tail(s), 10 * acc + DigitValue(Head(s)))

\* an unsigned literal: digits that single underscores may separate
Unsigned(body) ==
    IF /\ body # <<>>
       /\ \A i \in 1..Len(body) : body[i] \in Digits \cup {"_"}
       /\ body[1] # "_" /\ body[Len(body)] # "_"
       /\ \A i \in 1..(Len(body) - 1) :
             ~(body[i] = "_" /\ body[i + 1] = "_")
    THEN [ok |-> TRUE, v |-> DigitsValue(body, 0)]
    ELSE [ok |-> FALSE, v |-> 0]

\* int(s): blanks around, an optional sign, then an unsigned literal;
\* [ok |-> FALSE] stands for ValueError
int(s) ==
    LET t == StripRight(StripLeft(s))
        signed == t # <<>> /\ Head(t) \in {"+", "-"}
        u == Unsigned(IF signed THEN Tail(t) ELSE t)
    IN  IF ~u.ok THEN [ok |-> FALSE, v |-> 0]
        ELSE [ok |-> TRUE,
              v |-> IF signed /\ Head(t) = "-" THEN 0 - u.v ELSE u.v]

\* float(s), on the literals the model's floats can hold: blanks around, an
\* optional sign, then 'nan', or an unsigned literal with an optional
\* fraction of zeros ('3', '3.', '3.00').  [ok |-> FALSE] stands for
\* ValueError.  (Fractions, exponents and 'inf' are outside the model and no
\* input of the model uses them.)
float(s) ==
    LET t == StripRight(StripLeft(s))
        signed == t # <<>> /\ Head(t) \in {"+", "-"}
        body == IF signed THEN Tail(t) ELSE t
        dots == {i \in 1..Len(body) : body[i] = "."}
        k == IF dots = {} THEN Len(body) + 1
             ELSE CHOOSE i \in dots : \A j \in dots : i <= j
        u == Unsigned(SubSeq(body, 1, k - 1))
        frac == SubSeq(body, k + 1, Len(body))
    IN  IF body = <<"n", "a", "n">> THEN [ok |-> TRUE, v |-> NaN]
        ELSE IF u.ok /\ \A i \in 1..Len(frac) : frac[i] = "0"
             THEN [ok |-> TRUE,
                   v |-> Fl(IF signed /\ Head(t) = "-" THEN 0 - u.v ELSE u.v)]
             ELSE [ok |-> FALSE, v |-> Fl(0)]

----------------------------------------------------------------------------
(* utils/data_processor.py *)

\* str.split(sep) for a one-character sep
RECURSIVE split(_, _)
split(s, sep) ==
    IF \E i \in 1..Len(s) : s[i] = sep
    THEN LET k == CHOOSE i \in 1..Len(s) :
                     s[i] = sep /\ \A j \in 1..(i - 1) : s[j] # sep
         IN  <<SubSeq(s, 1, k - 1)>> \o split(SubSeq(s, k + 1, Len(s)), sep)
    ELSE <<s>>

\* str.replace(',', '')
RemoveCommas(s) == SelectSeq(s, LAMBDA c: c # ",")

\* a loop body that keeps a line whose numbers do not parse, as a record
\* with Quantity 0 and UnitPrice 0
ParseLine_KeepsUnparsed(line) ==
    LET parts == split(line, "|")
    IN  IF Len(parts) # 8 THEN <<>>
        ELSE LET quantity == int(RemoveCommas(parts[5]))
                 unit_price == float(RemoveCommas(parts[6]))
             IN  <<[TransactionID |-> parts[1], Date |-> parts[2],
                    ProductID |-> parts[3],
                    ProductName |-> RemoveCommas(parts[4]),
                    Quantity |-> quantity.v,
                    UnitPrice |-> unit_price.v,
                    CustomerID |-> parts[7], Region |-> parts[8]]>>

\* parse_transactions: the body of the loop on one line; <<>> when the line
\* is skipped, else the one record appended
ParseLine(line) ==
    LET parts == split(line, "|")
    IN  IF Len(parts) # 8 THEN <<>>
        ELSE LET quantity == int(RemoveCommas(parts[5]))
                 unit_price == float(RemoveCommas(parts[6]))
             IN  IF ~quantity.ok \/ ~unit_price.ok THEN <<>>
                 ELSE <<[TransactionID |-> parts[1], Date |-> parts[2],
                         ProductID |-> parts[3],
                         ProductName |-> RemoveCommas(parts[4]),
                         Quantity |-> quantity.v,
                         UnitPrice |-> unit_price.v,
                         CustomerID |-> parts[7], Region |-> parts[8]]>>

\* parse_transactions(raw_lines)
RECURSIVE parse_transactions(_)
parse_transactions(lines) ==
    IF lines = <<>> THEN <<>>
    ELSE ParseLine(Head(lines)) \o parse_transactions(Tail(lines))

\* Amount: t['Quantity'] * t['UnitPrice']
Amount(t) == MulIF(t.Quantity, t.UnitPrice)

\* the validation without its last test: an empty Region is let through
IsInvalid_NoRegionCheck(t) ==
    \/ t.Quantity <= 0
    \/ LeF(t.UnitPrice, Fl(0))
    \/ ~startswith(t.TransactionID, "T")
    \/ ~startswith(t.ProductID, "P")
    \/ ~startswith(t.CustomerID, "C")

\* the condition of the validation loop's if: the transaction is rejected
IsInvalid(t) ==
    \/ t.Quantity <= 0
    \/ LeF(t.UnitPrice, Fl(0))
    \/ ~startswith(t.TransactionID, "T")
    \/ ~startswith(t.ProductID, "P")
    \/ ~startswith(t.CustomerID, "C")
    \/ Len(t.Region) = 0

\* the validation loop: (valid_transactions, invalid_count) after the
\* transactions ts have been visited, starting from acc
RECURSIVE ValidationLoop_NoContinue(_, _)
ValidationLoop_NoContinue(ts, acc) ==
    IF ts = <<>> THEN acc
    ELSE IF IsInvalid(Head(ts))
         THEN ValidationLoop_NoContinue(Tail(ts),
                 [acc EXCEPT !.invalid_count = @ + 1,
                             !.valid_transactions = Append(@, Head(ts))])
         ELSE ValidationLoop_NoContinue(Tail(ts),
                 [acc EXCEPT !.valid_transactions = Append(@, Head(ts))])

RECURSIVE ValidationLoop(_, _)
ValidationLoop(ts, acc) ==
    IF ts = <<>> THEN acc
    ELSE IF IsInvalid(Head(ts))
         THEN ValidationLoop(Tail(ts),
                 [acc EXCEPT !.invalid_count = @ + 1])
         ELSE ValidationLoop(Tail(ts),
                 [acc EXCEPT !.valid_transactions = Append(@, Head(ts))])

\* if region: (None and '' are both falsy)
RegionGiven(region) == region.some /\ Len(region.v) > 0

\* the region filter: the count of the removed and the kept list
RegionFilter(filtered, region) ==
    IF RegionGiven(region)
    THEN [removed |-> Len(SelectSeq(filtered, LAMBDA t: t.Region # region.v)),
          filtered |-> SelectSeq(filtered, LAMBDA t: t.Region = region.v)]
    ELSE [removed |-> 0, filtered |-> filtered]

\* the minimum-amount filter
MinFilter(filtered, min_amount) ==
    IF min_amount.some
    THEN [removed |-> Len(SelectSeq(filtered,
                            LAMBDA t: LtF(Amount(t), min_amount.v))),
          filtered |-> SelectSeq(filtered,
                            LAMBDA t: GeF(Amount(t), min_amount.v))]
    ELSE [removed |-> 0, filtered |-> filtered]

\* the maximum-amount filter
MaxFilter(filtered, max_amount) ==
    IF max_amount.some
    THEN [removed |-> Len(SelectSeq(filtered,
                            LAMBDA t: GtF(Amount(t), max_amount.v))),
          filtered |-> SelectSeq(filtered,
                            LAMBDA t: LeF(Amount(t), max_amount.v))]
    ELSE [removed |-> 0, filtered |-> filtered]

\* validate_and_filter(transactions, region, min_amount, max_amount): the
\* tuple it returns, or the ValueError of min() on an empty amounts list
validate_and_filter(ts, region, min_amount, max_amount) ==
    LET v  == ValidationLoop(ts,
                 [valid_transactions |-> <<>>, invalid_count |-> 0])
        fr == RegionFilter(v.valid_transactions, region)
        fa == MinFilter(fr.filtered, min_amount)
        fb == MaxFilter(fa.filtered, max_amount)
    IN  IF v.valid_transactions = <<>>
        THEN [state |-> "raised", exc |-> "ValueError"]
        ELSE [state |-> "returned",
              valid |-> fb.filtered,
              invalid_count |-> v.invalid_count,
              summary |-> [total_input |-> Len(ts),
                           invalid |-> v.invalid_count,
                           filtered_by_region |-> fr.removed,
                           filtered_by_amount |-> fa.removed + fb.removed,
                           final_count |-> Len(fb.filtered)]]

\* the position of key k in the dict d (0 when absent)
KeyIndex(d, k) ==
    IF \E i \in 1..Len(d) : d[i].key = k
    THEN CHOOSE i \in 1..Len(d) : d[i].key = k
    ELSE 0

\* top_selling_products, the aggregation loop: product_data after the
\* transactions ts, starting from the dict d
RECURSIVE ProductData(_, _)
ProductData(ts, d) ==
    IF ts = <<>> THEN d
    ELSE LET txn == Head(ts)
             i == KeyIndex(d, txn.ProductName)
             d0 == IF i = 0
                   THEN Append(d, [key |-> txn.ProductName,
                                   total_quantity |-> 0,
                                   total_revenue |-> Fl(0)])
                   ELSE d
             j == IF i = 0 THEN Len(d0) ELSE i
         IN  ProductData(Tail(ts),
                [d0 EXCEPT ![j].total_quantity = @ + txn.Quantity,
                           ![j].total_revenue = AddF(@, Amount(txn))])

\* a sort that is not stable: equal quantities come out in reverse order
SortByQuantityDesc_Unstable(product_list) ==
    LET n == Len(product_list)
        reversed == [i \in 1..n |-> product_list[n + 1 - i]]
    IN  StableSort(reversed, LAMBDA x, y: x[2] > y[2])

\* product_list.sort(key=lambda x: x[1], reverse=True)
SortByQuantityDesc(product_list) ==
    StableSort(product_list, LAMBDA x, y: x[2] > y[2])

\* top_selling_products(transactions, n)
top_selling_products(ts, n) ==
    LET product_data == ProductData(ts, <<>>)
        product_list ==
            [i \in 1..Len(product_data) |->
                <<product_data[i].key, product_data[i].total_quantity,
                  product_data[i].total_revenue>>]
    IN  [state |-> "returned",
         value |-> SliceTo(SortByQuantityDesc(product_list), n)]

\* daily_sales_trend, the aggregation loop: daily_stats after the
\* transactions ts, starting from the dict d
RECURSIVE DailyStats(_, _)
DailyStats(ts, d) ==
    IF ts = <<>> THEN d
    ELSE LET t == Head(ts)
             i == KeyIndex(d, t.Date)
             d0 == IF i = 0
                   THEN Append(d, [key |-> t.Date, revenue |-> Fl(0),
                                   transaction_count |-> 0,
                                   unique_customers |-> {}])
                   ELSE d
             j == IF i = 0 THEN Len(d0) ELSE i
         IN  DailyStats(Tail(ts),
                [d0 EXCEPT ![j].revenue = AddF(@, Amount(t)),
                           ![j].transaction_count = @ + 1,
                           ![j].unique_customers = @ \cup {t.CustomerID}])

\* dict(sorted(daily_stats.items(), key=lambda x: x[0]))
SortByDate(items) == StableSort(items, LAMBDA x, y: StrLt(x.key, y.key))

\* daily_sales_trend(transactions): the dict, as its items in order
daily_sales_trend(ts) ==
    LET daily_stats == DailyStats(ts, <<>>)
        counted == [i \in 1..Len(daily_stats) |->
                      [daily_stats[i] EXCEPT
                          !.unique_customers = Cardinality(@)]]
    IN  SortByDate(counted)

\* max(items, key=lambda item: item[1]['revenue']) on a non-empty items:
\* the first item that no later item exceeds under >
RECURSIVE MaxByRevenue_LastWins(_, _)
MaxByRevenue_LastWins(items, best) ==
    IF items = <<>> THEN best
    ELSE IF GeF(Head(items).revenue, best.revenue)
         THEN MaxByRevenue_LastWins(Tail(items), Head(items))
         ELSE MaxByRevenue_LastWins(Tail(items), best)

RECURSIVE MaxByRevenue(_, _)
MaxByRevenue(items, best) ==
    IF items = <<>> THEN best
    ELSE IF GtF(Head(items).revenue, best.revenue)
         THEN MaxByRevenue(Tail(items), Head(items))
         ELSE MaxByRevenue(Tail(items), best)

\* find_peak_sales_day(transactions); max() of an empty dict raises
find_peak_sales_day(ts) ==
    LET daily_stats == daily_sales_trend(ts)
    IN  IF daily_stats = <<>>
        THEN [state |-> "raised", exc |-> "ValueError"]
        ELSE LET peak == MaxByRevenue(Tail(daily_stats), Head(daily_stats))
             IN  [state |-> "returned",
                  value |-> <<peak.key, peak.revenue,
                              peak.transaction_count>>]

\* round(x, 2): the floats of the model are whole numbers or NaN, which
\* rounding to two decimals leaves as they are
round2(x) == x

\* calculate_total_revenue(transactions)
RECURSIVE SumAmounts(_, _)
SumAmounts(ts, total_revenue) ==
    IF ts = <<>> THEN total_revenue
    ELSE SumAmounts(Tail(ts), AddF(total_revenue, Amount(Head(ts))))

calculate_total_revenue(ts) ==
    [state |-> "returned", value |-> round2(SumAmounts(ts, Fl(0)))]

\* round(a / b * times, 2) for floats a >= 0 and b > 0, in hundredths: the
\* quotient is not a whole number, so it is kept as the integer count of
\* its hundredths, a tie going to the even one
RoundedRatio(a, b, times) ==
    IF a.nan \/ b.nan THEN [nan |-> TRUE, hundredths |-> 0]
    ELSE LET n == a.v * times * 100
             q == n \div b.v
             rest == n % b.v
         IN  [nan |-> FALSE,
              hundredths |-> IF 2 * rest > b.v THEN q + 1
                             ELSE IF 2 * rest = b.v THEN q + (q % 2)
                             ELSE q]

\* region_wise_sales, the first pass: region_data after the transactions ts,
\* starting from the dict d
RECURSIVE RegionData(_, _)
RegionData(ts, d) ==
    IF ts = <<>> THEN d
    ELSE LET txn == Head(ts)
             i == KeyIndex(d, txn.Region)
             d0 == IF i = 0
                   THEN Append(d, [key |-> txn.Region, total_sales |-> Fl(0),
                                   transaction_count |-> 0])
                   ELSE d
             j == IF i = 0 THEN Len(d0) ELSE i
         IN  RegionData(Tail(ts),
                [d0 EXCEPT ![j].total_sales = AddF(@, Amount(txn)),
                           ![j].transaction_count = @ + 1])

\* sorted(region_data.items(), key=lambda item: item[1]['total_sales'],
\*        reverse=True)
SortByTotalSalesDesc(items) ==
    LET keyed == [i \in 1..Len(items) |->
                     [k |-> items[i].total_sales, item |-> items[i]]]
        sorted == ListSort(keyed, TRUE)
    IN  [i \in 1..Len(items) |-> sorted[i].item]

\* region_wise_sales(transactions): the dict, as its items in order; the
\* division raises ZeroDivisionError when the sales of all regions sum to 0
region_wise_sales(ts) ==
    LET region_data == RegionData(ts, <<>>)
        total_sales_all == SumAmounts(ts, Fl(0))
        with_percentage ==
            [i \in 1..Len(region_data) |->
                [key |-> region_data[i].key,
                 total_sales |-> region_data[i].total_sales,
                 transaction_count |-> region_data[i].transaction_count,
                 percentage |-> RoundedRatio(region_data[i].total_sales,
                                             total_sales_all, 100)]]
    IN  IF region_data # <<>> /\ total_sales_all = Fl(0)
        THEN [state |-> "raised", exc |-> "ZeroDivisionError"]
        ELSE [state |-> "returned",
              value |-> SortByTotalSalesDesc(with_percentage)]

\* customer_analysis, the first loop: customer_data after the transactions
\* ts, starting from the dict d
RECURSIVE CustomerData(_, _)
CustomerData(ts, d) ==
    IF ts = <<>> THEN d
    ELSE LET txn == Head(ts)
             i == KeyIndex(d, txn.CustomerID)
             d0 == IF i = 0
                   THEN Append(d, [key |-> txn.CustomerID,
                                   total_spent |-> Fl(0),
                                   purchase_count |-> 0,
                                   products_bought |-> {}])
                   ELSE d
             j == IF i = 0 THEN Len(d0) ELSE i
         IN  CustomerData(Tail(ts),
                [d0 EXCEPT ![j].total_spent = AddF(@, Amount(txn)),
                           ![j].purchase_count = @ + 1,
                           ![j].products_bought = @ \cup {txn.ProductName}])

\* sorted(list(S)) for a set S of str
SortedStrings(S) ==
    [r \in 1..Cardinality(S) |->
        CHOOSE x \in S : Cardinality({y \in S : StrLt(y, x)}) = r - 1]

\* sorted(customer_data.items(), key=lambda x: x[1]['total_spent'],
\*        reverse=True)
SortByTotalSpentDesc(items) ==
    LET keyed == [i \in 1..Len(items) |->
                     [k |-> items[i].total_spent, item |-> items[i]]]
        sorted == ListSort(keyed, TRUE)
    IN  [i \in 1..Len(items) |-> sorted[i].item]

\* customer_analysis(transactions): the dict, as its items in order
customer_analysis(ts) ==
    LET customer_data == CustomerData(ts, <<>>)
        info == [i \in 1..Len(customer_data) |->
                    [key |-> customer_data[i].key,
                     total_spent |-> customer_data[i].total_spent,
                     purchase_count |-> customer_data[i].purchase_count,
                     products_bought |->
                        SortedStrings(customer_data[i].products_bought),
                     avg_order_value |->
                        RoundedRatio(customer_data[i].total_spent,
                                     Fl(customer_data[i].purchase_count), 1)]]
    IN  [state |-> "returned", value |-> SortByTotalSpentDesc(info)]

\* low_performing_products, the aggregation loop: product_data after the
\* transactions ts, starting from the dict d
RECURSIVE LowProductData(_, _)
LowProductData(ts, d) ==
    IF ts = <<>> THEN d
    ELSE LET txn == Head(ts)
             i == KeyIndex(d, txn.ProductName)
             d0 == IF i = 0
                   THEN Append(d, [key |-> txn.ProductName,
                                   total_quantity |-> 0,
                                   total_revenue |-> Fl(0)])
                   ELSE d
             j == IF i = 0 THEN Len(d0) ELSE i
         IN  LowProductData(Tail(ts),
                [d0 EXCEPT ![j].total_quantity = @ + txn.Quantity,
                           ![j].total_revenue = AddF(@, Amount(txn))])

\* a filter that lets the threshold itself through
LowFilter_Inclusive(product_data, threshold) ==
    SelectSeq(product_data, LAMBDA info: info.total_quantity <= threshold)

\* if info['total_quantity'] < threshold
LowFilter(product_data, threshold) ==
    SelectSeq(product_data, LAMBDA info: info.total_quantity < threshold)

\* low_products.sort(key=lambda x: x[1])
SortByQuantityAsc(low_products) ==
    StableSort(low_products, LAMBDA x, y: x[2] < y[2])

\* low_performing_products(transactions, threshold)
low_performing_products(ts, threshold) ==
    LET product_data == LowProductData(ts, <<>>)
        kept == LowFilter(product_data, threshold)
        low_products ==
            [i \in 1..Len(kept) |->
                <<kept[i].key, kept[i].total_quantity,
                  round2(kept[i].total_revenue)>>]
    IN  [state |-> "returned", value |-> SortByQuantityAsc(low_products)]

----------------------------------------------------------------------------
(* utils/api_handler.py *)

\* a JSON value the pipeline only copies: null (None) or an opaque value
JNull == [some |-> FALSE, v |-> ""]
J(x) == [some |-> TRUE, v |-> x]

\* create_product_mapping(api_products): the dict, as a function on its keys;
\* products ps are visited in order from the mapping m, an entry without an
\* id is skipped and a repeated id overwrites
RECURSIVE ProductMapping(_, _)
ProductMapping(ps, m) ==
    IF ps = <<>> THEN m
    ELSE LET product == Head(ps)
             info == [title |-> product.title,
                      category |-> product.category,
                      brand |-> product.brand,
                      rating |-> product.rating]
         IN  IF ~product.id.some
             THEN ProductMapping(Tail(ps), m)
             ELSE ProductMapping(Tail(ps),
                     [k \in DOMAIN m \cup {product.id.v} |->
                         IF k = product.id.v THEN info ELSE m[k]])

create_product_mapping(products) ==
    ProductMapping(products, <<>>)

\* str.lstrip('P'): every leading 'P' is removed
RECURSIVE lstrip_P(_)
lstrip_P(s) ==
    IF s # <<>> /\ Head(s) = "P" THEN lstrip_P(Tail(s)) ELSE s

\* the product_id of enrich_sales_data: None when int() raises ValueError
ProductIdOf(txn) ==
    LET parsed == int(lstrip_P(txn.ProductID))
    IN  IF parsed.ok THEN [some |-> TRUE, v |-> parsed.v]
        ELSE [some |-> FALSE, v |-> 0]

\* if product_id and product_id in product_mapping: (None and 0 are falsy)
Matches(product_id, mapping) ==
    /\ product_id.some
    /\ product_id.v # 0
    /\ product_id.v \in DOMAIN mapping

\* an enrichment that stores the ProductID without its leading 'P's
Enriched_StrippedId(txn, mapping) ==
    LET product_id == ProductIdOf(txn)
        matched == Matches(product_id, mapping)
        copy == [TransactionID |-> txn.TransactionID, Date |-> txn.Date,
                 ProductID |-> lstrip_P(txn.ProductID),
                 ProductName |-> txn.ProductName,
                 Quantity |-> txn.Quantity, UnitPrice |-> txn.UnitPrice,
                 CustomerID |-> txn.CustomerID, Region |-> txn.Region,
                 API_Category |-> JNull, API_Brand |-> JNull,
                 API_Rating |-> JNull, API_Match |-> FALSE]
    IN  IF matched
        THEN LET api_info == mapping[product_id.v]
             IN  [copy EXCEPT !.API_Category = api_info.category,
                              !.API_Brand = api_info.brand,
                              !.API_Rating = api_info.rating,
                              !.API_Match = TRUE]
        ELSE copy

\* the body of the loop of enrich_sales_data: new_txn for txn
Enriched(txn, mapping) ==
    LET product_id == ProductIdOf(txn)
        matched == Matches(product_id, mapping)
        copy == [TransactionID |-> txn.TransactionID, Date |-> txn.Date,
                 ProductID |-> txn.ProductID,
                 ProductName |-> txn.ProductName,
                 Quantity |-> txn.Quantity, UnitPrice |-> txn.UnitPrice,
                 CustomerID |-> txn.CustomerID, Region |-> txn.Region,
                 API_Category |-> JNull, API_Brand |-> JNull,
                 API_Rating |-> JNull, API_Match |-> FALSE]
    IN  IF matched
        THEN LET api_info == mapping[product_id.v]
             IN  [copy EXCEPT !.API_Category = api_info.category,
                              !.API_Brand = api_info.brand,
                              !.API_Rating = api_info.rating,
                              !.API_Match = TRUE]
        ELSE copy

\* new_txn = txn, without the copy: new_txn is the input record itself
NewTxn_NoCopy(txn) == [alias |-> TRUE, d |-> txn]

\* new_txn = txn.copy(): a new dict with the items of txn
NewTxn(txn) == [alias |-> FALSE, d |-> txn]

\* the input list after enrich_sales_data: the stores of lines 78-86 go to
\* new_txn, and change the input record only if new_txn is that record
InputAfterEnrich(ts, mapping) ==
    [i \in 1..Len(ts) |->
        IF NewTxn(ts[i]).alias THEN Enriched(ts[i], mapping) ELSE ts[i]]

\* enrich_sales_data(transactions, product_mapping)
enrich_sales_data(ts, mapping) ==
    [i \in 1..Len(ts) |-> Enriched(ts[i], mapping)]

\* fetch_all_products() on the response the catalog gives.  With
\* caught, the installed requests raises its own JSONDecodeError, a
\* RequestException, from response.json(); older releases raise a plain
\* ValueError there, which the except clause does not catch.
fetch_all_products(response, caught) ==
    CASE response.kind \in {"ConnectionError", "HTTPError"} ->
            [state |-> "returned", value |-> <<>>]
      [] response.kind = "not_json" ->
            IF caught THEN [state |-> "returned", value |-> <<>>]
            ELSE [state |-> "raised", exc |-> "ValueError"]
      [] response.kind = "json_array" ->
            \* data.get on a list
            [state |-> "raised", exc |-> "AttributeError"]
      [] response.kind = "json_object" ->
            [state |-> "returned",
             value |-> [i \in 1..Len(response.products) |->
                          LET q == response.products[i]
                          IN  [id |-> q.id, title |-> q.title,
                               category |-> q.category, brand |-> q.brand,
                               price |-> q.price, rating |-> q.rating]]]

\* save_enriched_data(enriched_transactions): open() may raise; else the
\* header and one row per transaction are written
save_enriched_data(enriched_transactions, io) ==
    IF io # "ok" THEN [state |-> "raised", exc |-> io]
    ELSE [state |-> "returned",
          file |-> [written |-> TRUE, rows |-> enriched_transactions]]

----------------------------------------------------------------------------
(* utils/file_handler.py *)

\* read_sales_data(filename): a missing file gives [], any other OSError of
\* open() is not caught; the lines are stripped, the blank ones dropped,
\* and the first of the rest (the header) removed
read_sales_data(f) ==
    CASE f.kind = "missing" -> [state |-> "returned", value |-> <<>>]
      [] f.kind = "unreadable" -> [state |-> "raised", exc |-> "PermissionError"]
      [] f.kind = "present" ->
            LET stripped == [i \in 1..Len(f.lines) |->
                                StripRight(StripLeft(f.lines[i]))]
                lines == SelectSeq(stripped, LAMBDA l: l # <<>>)
            IN  [state |-> "returned",
                 value |-> IF lines # <<>> THEN Tail(lines) ELSE lines]

----------------------------------------------------------------------------
(* utils/report_generator.py *)

\* sum(t['Quantity'] * t['UnitPrice'] for t in transactions)
RECURSIVE TotalRevenue(_)
TotalRevenue(ts) ==
    IF ts = <<>> THEN Fl(0)
    ELSE AddF(TotalRevenue(SubSeq(ts, 1, Len(ts) - 1)), Amount(ts[Len(ts)]))

NoReport == [state |-> "none"]

\* generate_sales_report(transactions, enriched_transactions): open() may
\* raise; the header is written; min(dates) raises ValueError on an empty
\* list, leaving the header alone in the file; else every section is written
generate_sales_report(ts, enriched_transactions, io) ==
    IF io # "ok" THEN [state |-> "raised", exc |-> io, report |-> NoReport]
    ELSE IF ts = <<>>
    THEN [state |-> "raised", exc |-> "ValueError",
          report |-> [state |-> "partial", records_processed |-> 0]]
    ELSE [state |-> "returned",
          report |->
            [state |-> "complete",
             records_processed |-> Len(ts),
             total_revenue |-> TotalRevenue(ts),
             total_transactions |-> Len(ts),
             top_products |-> top_selling_products(ts, 5).value,
             daily |-> daily_sales_trend(ts),
             best_day |-> find_peak_sales_day(ts).value[1],
             enriched_success |->
                Len(SelectSeq(enriched_transactions,
                              LAMBDA t: t.API_Match))]]

----------------------------------------------------------------------------
(* Inputs of the direct calls *)

Base ==
    [TransactionID |-> <<"T", "1">>, Date |-> <<"1", "2", "-", "0", "1">>,
     ProductID |-> <<"P", "1">>, ProductName |-> <<"W">>,
     Quantity |-> 2, UnitPrice |-> Fl(3),
     CustomerID |-> <<"C", "1">>, Region |-> <<"N">>]

\* transactions that pass validation: two regions that differ in case only,
\* amounts 3, 6 and 9, and a price of NaN
PoolValid ==
    {[Base EXCEPT !.Region = r, !.Quantity = q] :
        r \in {<<"N">>, <<"n">>}, q \in {1, 2, 3}}
    \cup {[Base EXCEPT !.UnitPrice = NaN]}

\* transactions with one defect each, and one with all of them
PoolInvalid ==
    {[Base EXCEPT !.Quantity = 0], [Base EXCEPT !.Quantity = -1],
     [Base EXCEPT !.UnitPrice = Fl(0)], [Base EXCEPT !.UnitPrice = Fl(-3)],
     [Base EXCEPT !.TransactionID = <<"X", "T">>],
     [Base EXCEPT !.TransactionID = <<>>],
     [Base EXCEPT !.ProductID = <<"Q", "1">>],
     [Base EXCEPT !.CustomerID = <<"D", "1">>],
     [Base EXCEPT !.Region = <<>>],
     [TransactionID |-> <<"t", "1">>, Date |-> <<>>, ProductID |-> <<>>,
      ProductName |-> <<>>, Quantity |-> 0, UnitPrice |-> Fl(0),
      CustomerID |-> <<>>, Region |-> <<>>]}

ValidatePool == PoolValid \cup PoolInvalid

\* the sequences over S of length at most n
SeqUpTo(S, n) == UNION {[1..k -> S] : k \in 0..n}

RegionArgs == {None, Some(<<>>), Some(<<"N">>)}
MinArgs == {NoAmount, Some(Fl(6))}
MaxArgs == {NoAmount, Some(Fl(6))}

ValidateCall(ts, r, a, b) ==
    [fn |-> "validate_and_filter", transactions |-> ts, region |-> r,
     min_amount |-> a, max_amount |-> b]

D01 == <<"1", "2", "-", "0", "1">>
D02 == <<"1", "2", "-", "0", "2">>
D10 == <<"1", "2", "-", "1", "0">>

\* validated transactions on three dates with amounts 3 and 6, and one with
\* a price of NaN
PeakPool ==
    {[Base EXCEPT !.Date = d, !.Quantity = q] :
        d \in {D01, D02, D10}, q \in {1, 2}}
    \cup {[Base EXCEPT !.Date = D02, !.UnitPrice = NaN]}

PeakCalls ==
    {[fn |-> "find_peak_sales_day", transactions |-> ts] :
        ts \in SeqUpTo(PeakPool, MaxAnalyticsLen)}

\* validated transactions of three products with quantities 1 and 2
TopPool ==
    {[Base EXCEPT !.ProductName = p, !.Quantity = q] :
        p \in {<<"W">>, <<"G">>, <<"S">>}, q \in {1, 2}}
    \cup {[Base EXCEPT !.ProductName = <<"G">>, !.UnitPrice = NaN]}

TopCalls ==
    {[fn |-> "top_selling_products", transactions |-> ts, n |-> n] :
        ts \in SeqUpTo(TopPool, MaxAnalyticsLen), n \in 0..MaxN}

\* transactions of three products with quantities 1, 2 and 3, and one with
\* a price of NaN
LowPool ==
    {[Base EXCEPT !.ProductName = p, !.Quantity = q] :
        p \in {<<"W">>, <<"G">>, <<"S">>}, q \in {1, 2, 3}}
    \cup {[Base EXCEPT !.ProductName = <<"G">>, !.UnitPrice = NaN]}

LowCalls ==
    {[fn |-> "low_performing_products", transactions |-> ts,
      threshold |-> th] :
        ts \in SeqUpTo(LowPool, MaxAnalyticsLen), th \in 1..MaxThreshold}

\* validated transactions of three regions (two of them differ in case
\* only), customers and dates, with amounts 3 and 6, and one with a price of
\* NaN
GroupPool ==
    {[Base EXCEPT !.Region = g[1], !.CustomerID = g[2], !.Date = g[3],
                  !.Quantity = q] :
        g \in {<<<<"N">>, <<"C", "1">>, D10>>,
               <<<<"n">>, <<"C", "2">>, D02>>,
               <<<<"S">>, <<"C", "3">>, D01>>},
        q \in {1, 2}}
    \cup {[Base EXCEPT !.Region = <<"n">>, !.CustomerID = <<"C", "2">>,
                       !.Date = D02, !.UnitPrice = NaN]}

GroupCalls ==
    {[fn |-> f, transactions |-> ts] :
        f \in {"region_wise_sales", "customer_analysis", "daily_sales_trend"},
        ts \in SeqUpTo(GroupPool, MaxAnalyticsLen)}

\* a catalog entry as fetch_all_products builds it
Product(id, category) ==
    [id |-> id, title |-> J("t"), category |-> category, brand |-> J("b"),
     price |-> J("9.99"), rating |-> J("4.5")]

\* entries with the ids 0, 1 and 2, one without an id, one without a
\* category, and two that share an id
CatalogPool ==
    {Product(Some(0), J("zero")), Product(Some(1), J("tools")),
     Product(Some(1), J("toys")), Product(Some(2), JNull),
     Product([some |-> FALSE, v |-> 0], J("none"))}

Catalogs == SeqUpTo(CatalogPool, MaxCatalog)

\* transactions whose ProductID is 'P1', 'P0', 'PP2', 'P', 'Px', 'Q1', '2',
\* 'P 1', 'P-1' and 'P1_0'
EnrichPool ==
    {[Base EXCEPT !.ProductID = pid] :
        pid \in {<<"P", "1">>, <<"P", "0">>, <<"P", "P", "2">>, <<"P">>,
                 <<"P", "x">>, <<"Q", "1">>, <<"2">>, <<"P", " ", "1">>,
                 <<"P", "-", "1">>, <<"P", "1", "_", "0">>}}

EnrichCalls ==
    {[fn |-> "enrich_sales_data", transactions |-> ts,
      product_mapping |-> create_product_mapping(ps)] :
        ts \in SeqUpTo(EnrichPool, MaxEnrichLen), ps \in Catalogs}

----------------------------------------------------------------------------
(* main.py: the environment of a run *)

\* sep.join(parts)
RECURSIVE join(_, _)
join(parts, sep) ==
    IF Len(parts) = 1 THEN parts[1]
    ELSE parts[1] \o <<sep>> \o join(Tail(parts), sep)

OkFields == <<<<"T", "1">>, D01, <<"P", "1">>, <<"W">>, <<"2">>, <<"3">>,
              <<"C", "1">>, <<"N">>>>

\* data lines: two valid ones, one with the price 'nan' and the product P0,
\* one for each way of failing validation, one of 7 fields, one of 9, one
\* whose quantity is not a number, one with commas in the product name and
\* in the quantity, and a blank one
LinePool ==
    {join(OkFields, "|"),
     join(<<<<"T", "2">>, D02, <<"P", "2">>, <<"G">>, <<"1">>, <<"3">>,
            <<"C", "2">>, <<"n">>>>, "|"),
     join([OkFields EXCEPT ![3] = <<"P", "0">>, ![6] = <<"n", "a", "n">>], "|"),
     join([OkFields EXCEPT ![5] = <<"0">>], "|"),
     join([OkFields EXCEPT ![6] = <<"0">>], "|"),
     join([OkFields EXCEPT ![1] = <<"X", "1">>], "|"),
     join([OkFields EXCEPT ![3] = <<"Q", "1">>], "|"),
     join([OkFields EXCEPT ![7] = <<"D", "1">>], "|"),
     join([OkFields EXCEPT ![8] = <<>>], "|"),
     join(SubSeq(OkFields, 1, 7), "|"),
     join(OkFields \o <<<<"x">>>>, "|"),
     join([OkFields EXCEPT ![4] = <<"W", ",", "G">>,
                           ![5] = <<"1", ",", "0">>], "|"),
     join([OkFields EXCEPT ![5] = <<"x">>], "|"),
     <<" ">>}

Header == <<"I", "D", "|", "D", "a", "t", "e">>

\* the input file: missing, unreadable (open() raises PermissionError),
\* empty, or a header and data lines.  (The branch of read_sales_data for a
\* file no encoding decodes cannot be taken: latin-1 decodes every byte.)
Files ==
    {[kind |-> "missing", lines |-> <<>>],
     [kind |-> "unreadable", lines |-> <<>>],
     [kind |-> "present", lines |-> <<>>]}
    \cup {[kind |-> "present", lines |-> <<Header>> \o ls] :
            ls \in SeqUpTo(LinePool, MaxLines)}

\* what the catalog can answer: no connection, a non-2xx status, a body that
\* is not JSON, a JSON array, or a JSON object with a products list
Responses ==
    {[kind |-> k, products |-> <<>>] :
        k \in {"ConnectionError", "HTTPError", "not_json", "json_array"}}
    \cup {[kind |-> "json_object", products |-> ps] :
            ps \in {<<>>, <<Product(Some(1), J("tools"))>>,
                    <<Product(Some(0), J("zero")),
                      Product(Some(2), JNull)>>}}

\* the operator's answers at the prompts, after strip(): stdin may be at its
\* end (input() raises EOFError)
PromptAnswers ==
    {[eof |-> TRUE, choice |-> "n", region |-> <<>>, min |-> <<>>,
      max |-> <<>>],
     [eof |-> FALSE, choice |-> "n", region |-> <<>>, min |-> <<>>,
      max |-> <<>>]}
    \cup {[eof |-> FALSE, choice |-> "y", region |-> r, min |-> a,
           max |-> b] :
            r \in {<<>>, <<"n">>}, a \in {<<>>, <<"6">>, <<"x">>},
            b \in {<<>>, <<"6">>}}

----------------------------------------------------------------------------
(* main.py *)

Functions ==
    {"read_sales_data", "parse_transactions", "validate_and_filter",
     "fetch_all_products", "enrich_sales_data", "save_enriched_data",
     "generate_sales_report"}

NoFetch == [response |-> [kind |-> "none", products |-> <<>>],
            result |-> Pending]
NotWritten == [written |-> FALSE, rows |-> <<>>]

\* lines 181-208: the filter the operator asks for, applied to the parsed
\* transactions before validation; float() of an answer may raise
Prompt(ts, ans) ==
    IF ans.eof THEN [state |-> "raised", exc |-> "EOFError"]
    ELSE IF ans.choice # "y" THEN [state |-> "returned", value |-> ts]
    ELSE
      LET byRegion ==
              IF ans.region # <<>>
              THEN SelectSeq(ts, LAMBDA t: lower(t.Region) = lower(ans.region))
              ELSE ts
          min_input == float(ans.min)
          byMin == IF ans.min # <<>>
                   THEN SelectSeq(byRegion,
                           LAMBDA t: GeF(Amount(t), min_input.v))
                   ELSE byRegion
          max_input == float(ans.max)
          byMax == IF ans.max # <<>>
                   THEN SelectSeq(byMin,
                           LAMBDA t: LeF(Amount(t), max_input.v))
                   ELSE byMin
      IN  IF (ans.min # <<>> /\ ~min_input.ok)
             \/ (ans.max # <<>> /\ ~max_input.ok)
          THEN [state |-> "raised", exc |-> "ValueError"]
          ELSE [state |-> "returned", value |-> byMax]

\* where control goes after a call that gave r: on to label, or out of
\* main() with the exception when the call is outside the try block
\* (lines 31-149), or to the except clauses (lines 259-264)
Step(r, label, inTry) ==
    IF r.state # "raised"
    THEN pc' = label /\ UNCHANGED <<exc, message>>
    ELSE /\ exc' = r.exc
         /\ IF inTry
            THEN /\ pc' = "returned"
                 /\ message' = IF r.exc = "FileNotFoundError"
                               THEN "not_found" ELSE "unexpected"
            ELSE pc' = "propagated" /\ UNCHANGED message

Called(fn) == [calls EXCEPT ![fn] = @ + 1]

\* lines 33 and 165
Read(here, next, inTry) ==
    /\ pc = here
    /\ LET r == read_sales_data(file)
       IN  /\ raw_lines' = IF r.state = "returned" THEN r.value ELSE raw_lines
           /\ Step(r, next, inTry)
    /\ calls' = Called("read_sales_data")
    /\ UNCHANGED <<callvars, file, jsonErrorCaught, transactions,
                   filtered_transactions, valid, invalid_count, summary,
                   api_products, product_mapping, enriched, outputs, handed,
                   validated, last_fetch>>

\* lines 34 and 169
Parse(here, next) ==
    /\ pc = here
    /\ transactions' = parse_transactions(raw_lines)
    /\ pc' = next
    /\ calls' = Called("parse_transactions")
    /\ UNCHANGED <<callvars, file, jsonErrorCaught, raw_lines,
                   filtered_transactions, valid, invalid_count, summary,
                   api_products, product_mapping, enriched, outputs, message,
                   exc, handed, validated, last_fetch>>

\* lines 36-45 and 212-218: validate_and_filter without filters
Validate(here, next, input, inTry) ==
    /\ pc = here
    /\ LET r == validate_and_filter(input, None, NoAmount, NoAmount)
       IN  /\ IF r.state = "returned"
              THEN /\ valid' = r.valid
                   /\ invalid_count' = r.invalid_count
                   /\ summary' = r.summary
              ELSE UNCHANGED <<valid, invalid_count, summary>>
           /\ validated' = validated \cup {[input |-> input, result |-> r]}
           /\ Step(r, next, inTry)
    /\ calls' = Called("validate_and_filter")
    /\ UNCHANGED <<callvars, file, jsonErrorCaught, raw_lines, transactions,
                   filtered_transactions, api_products, product_mapping,
                   enriched, outputs, handed, last_fetch>>

\* lines 51-97 (withPeak: find_peak_sales_day is called) and 223-227
Analytics(here, next, withPeak, inTry) ==
    /\ pc = here
    /\ handed' = handed \cup {[to |-> "analytics", collection |-> valid]}
    /\ Step(IF withPeak THEN find_peak_sales_day(valid)
            ELSE [state |-> "returned"], next, inTry)
    /\ UNCHANGED <<callvars, file, jsonErrorCaught, locals, outputs, calls,
                   validated, last_fetch>>

\* lines 103-108, 115-117 and 232-233
Fetch(here, next, inTry) ==
    /\ pc = here
    /\ \E response \in Responses :
          LET r == fetch_all_products(response, jsonErrorCaught)
          IN  /\ api_products' =
                    IF r.state = "returned" THEN r.value ELSE api_products
              /\ last_fetch' = [response |-> response, result |-> r]
              /\ Step(r, next, inTry)
    /\ calls' = Called("fetch_all_products")
    /\ UNCHANGED <<callvars, file, jsonErrorCaught, raw_lines, transactions,
                   filtered_transactions, valid, invalid_count, summary,
                   product_mapping, enriched, outputs, handed, validated>>

\* lines 120-139 and 237-241
Enrich(here, next) ==
    /\ pc = here
    /\ product_mapping' = create_product_mapping(api_products)
    /\ enriched' = enrich_sales_data(valid, product_mapping')
    /\ handed' = handed \cup {[to |-> "enrich", collection |-> valid]}
    /\ pc' = next
    /\ calls' = Called("enrich_sales_data")
    /\ UNCHANGED <<callvars, file, jsonErrorCaught, raw_lines, transactions,
                   filtered_transactions, valid, invalid_count, summary,
                   api_products, outputs, message, exc, validated,
                   last_fetch>>

\* lines 142-143 and 245-247
Save(here, next, inTry) ==
    /\ pc = here
    /\ \E io \in {"ok", "PermissionError"} :
          LET r == save_enriched_data(enriched, io)
          IN  /\ enriched_file' =
                    IF r.state = "returned" THEN r.file ELSE enriched_file
              /\ Step(r, next, inTry)
    /\ calls' = Called("save_enriched_data")
    /\ UNCHANGED <<callvars, file, jsonErrorCaught, locals, report, handed,
                   validated, last_fetch>>

\* line 149 (then on to the second half) and lines 250-256 (then the run
\* is complete)
Report(here, next, inTry) ==
    /\ pc = here
    /\ \E io \in {"ok", "FileNotFoundError"} :
          LET r == generate_sales_report(valid, enriched, io)
          IN  /\ report' = IF r.report # NoReport THEN r.report ELSE report
              /\ IF r.state = "returned" /\ next = "returned"
                 THEN /\ pc' = "returned"
                      /\ message' = "complete"
                      /\ UNCHANGED exc
                 ELSE Step(r, next, inTry)
    /\ handed' = handed \cup {[to |-> "report", collection |-> valid]}
    /\ calls' = Called("generate_sales_report")
    /\ UNCHANGED <<callvars, file, jsonErrorCaught, locals, enriched_file,
                   validated, last_fetch>>

\* lines 173-179: min() and max() of the amounts of the parsed transactions
Options ==
    /\ pc = "options2"
    /\ Step(IF transactions = <<>>
            THEN [state |-> "raised", exc |-> "ValueError"]
            ELSE [state |-> "returned"], "prompt2", TRUE)
    /\ UNCHANGED <<callvars, file, jsonErrorCaught, locals, outputs, history>>

\* lines 181-208
AskFilter ==
    /\ pc = "prompt2"
    /\ \E ans \in PromptAnswers :
          LET r == Prompt(transactions, ans)
          IN  /\ filtered_transactions' =
                    IF r.state = "returned" THEN r.value
                    ELSE filtered_transactions
              /\ Step(r, "validate2", TRUE)
    /\ UNCHANGED <<callvars, file, jsonErrorCaught, raw_lines, transactions,
                   valid, invalid_count, summary, api_products,
                   product_mapping, enriched, outputs, history>>

\* the first half of main(), lines 31-149, outside the try block
M1_Read == Read("read1", "parse1", FALSE)
M1_Parse == Parse("parse1", "validate1")
M1_Validate == Validate("validate1", "analytics1", transactions, FALSE)
M1_Analytics == Analytics("analytics1", "fetch1a", TRUE, FALSE)
M1_FetchA == Fetch("fetch1a", "fetch1b", FALSE)
M1_FetchB == Fetch("fetch1b", "enrich1", FALSE)
M1_Enrich == Enrich("enrich1", "save1")
M1_Save == Save("save1", "report1", FALSE)
M1_Report == Report("report1", "read2", FALSE)

\* the second half, lines 158-256, inside it
M2_Read == Read("read2", "parse2", TRUE)
M2_Parse == Parse("parse2", "options2")
M2_Options == Options
M2_AskFilter == AskFilter
M2_Validate == Validate("validate2", "analytics2", filtered_transactions, TRUE)
M2_Analytics == Analytics("analytics2", "fetch2", FALSE, TRUE)
M2_Fetch == Fetch("fetch2", "enrich2", TRUE)
M2_Enrich == Enrich("enrich2", "save2")
M2_Save == Save("save2", "report2", TRUE)
M2_Report == Report("report2", "returned", TRUE)

\* no sequence of calls on a shared list
NoSession == [state |-> "none"]

\* the state before main() is entered
MainStart(f, j) ==
    /\ file = f
    /\ jsonErrorCaught = j
    /\ raw_lines = <<>> /\ transactions = <<>>
    /\ filtered_transactions = <<>> /\ valid = <<>>
    /\ invalid_count = 0
    /\ summary = [total_input |-> 0, invalid |-> 0, filtered_by_region |-> 0,
                  filtered_by_amount |-> 0, final_count |-> 0]
    /\ api_products = <<>> /\ product_mapping = <<>> /\ enriched = <<>>
    /\ enriched_file = NotWritten /\ report = NoReport
    /\ message = "none" /\ exc = "none"
    /\ calls = [fn \in Functions |-> 0]
    /\ handed = {} /\ validated = {}
    /\ last_fetch = NoFetch

Init ==
    /\ call = [fn |-> "main"] /\ ret = Pending /\ session = NoSession
    /\ pc = "read1"
    /\ \E f \in Files, j \in BOOLEAN : MainStart(f, j)

Next ==
    \/ M1_Read \/ M1_Parse \/ M1_Validate \/ M1_Analytics \/ M1_FetchA
    \/ M1_FetchB \/ M1_Enrich \/ M1_Save \/ M1_Report
    \/ M2_Read \/ M2_Parse \/ M2_Options \/ M2_AskFilter \/ M2_Validate
    \/ M2_Analytics \/ M2_Fetch \/ M2_Enrich \/ M2_Save \/ M2_Report

Spec == Init /\ [][Next]_vars

\* no run of main() in the specifications of the direct calls
NoMain == pc = "idle" /\ MainStart([kind |-> "missing", lines |-> <<>>], TRUE)

----------------------------------------------------------------------------
(* Direct calls *)

Call_validate_and_filter ==
    /\ call.fn = "validate_and_filter"
    /\ ret.state = "pending"
    /\ ret' = validate_and_filter(call.transactions, call.region,
                                  call.min_amount, call.max_amount)
    /\ UNCHANGED <<call, session, mainvars>>

Call_find_peak_sales_day ==
    /\ call.fn = "find_peak_sales_day"
    /\ ret.state = "pending"
    /\ ret' = find_peak_sales_day(call.transactions)
    /\ UNCHANGED <<call, session, mainvars>>

Call_top_selling_products ==
    /\ call.fn = "top_selling_products"
    /\ ret.state = "pending"
    /\ ret' = top_selling_products(call.transactions, call.n)
    /\ UNCHANGED <<call, session, mainvars>>

Call_low_performing_products ==
    /\ call.fn = "low_performing_products"
    /\ ret.state = "pending"
    /\ ret' = low_performing_products(call.transactions, call.threshold)
    /\ UNCHANGED <<call, session, mainvars>>

Call_region_wise_sales ==
    /\ call.fn = "region_wise_sales"
    /\ ret.state = "pending"
    /\ ret' = region_wise_sales(call.transactions)
    /\ UNCHANGED <<call, session, mainvars>>

Call_customer_analysis ==
    /\ call.fn = "customer_analysis"
    /\ ret.state = "pending"
    /\ ret' = customer_analysis(call.transactions)
    /\ UNCHANGED <<call, session, mainvars>>

Call_daily_sales_trend ==
    /\ call.fn = "daily_sales_trend"
    /\ ret.state = "pending"
    /\ ret' = [state |-> "returned",
               value |-> daily_sales_trend(call.transactions)]
    /\ UNCHANGED <<call, session, mainvars>>

InitAnalytics ==
    /\ NoMain
    /\ call \in PeakCalls \cup TopCalls \cup LowCalls \cup GroupCalls
    /\ ret = Pending /\ session = NoSession
NextAnalytics ==
    \/ Call_find_peak_sales_day
    \/ Call_top_selling_products
    \/ Call_low_performing_products
    \/ Call_region_wise_sales
    \/ Call_customer_analysis
    \/ Call_daily_sales_trend
SpecAnalytics == InitAnalytics /\ [][NextAnalytics]_vars

Call_enrich_sales_data ==
    /\ call.fn = "enrich_sales_data"
    /\ ret.state = "pending"
    /\ ret' = [state |-> "returned",
               value |-> enrich_sales_data(call.transactions,
                                           call.product_mapping)]
    /\ UNCHANGED <<call, session, mainvars>>

InitEnrich ==
    NoMain /\ call \in EnrichCalls /\ ret = Pending /\ session = NoSession
NextEnrich == Call_enrich_sales_data
SpecEnrich == InitEnrich /\ [][NextEnrich]_vars

InitValidate ==
    /\ NoMain
    /\ \E ts \in SeqUpTo(ValidatePool, MaxLen), r \in RegionArgs,
          a \in MinArgs, b \in MaxArgs : call = ValidateCall(ts, r, a, b)
    /\ ret = Pending /\ session = NoSession
NextValidate == Call_validate_and_filter
SpecValidate == InitValidate /\ [][NextValidate]_vars

\* a sequence of calls of the analytics functions and of enrich_sales_data,
\* in any order and any number of times, on one validated list.  The seven
\* analytics functions store into dicts they create and only read the list
\* and its records; enrich_sales_data stores into new_txn.
SessionFunctions ==
    {"calculate_total_revenue", "region_wise_sales", "top_selling_products",
     "customer_analysis", "daily_sales_trend", "find_peak_sales_day",
     "low_performing_products", "enrich_sales_data"}

\* validated transactions: two that differ in region, product, customer,
\* date and amount, the second without a catalog entry, and one with a price
\* of NaN
SessionPool ==
    {Base,
     [Base EXCEPT !.Region = <<"S">>, !.ProductName = <<"G">>,
                  !.CustomerID = <<"C", "2">>, !.Date = D02,
                  !.Quantity = 3, !.ProductID = <<"P", "2">>],
     [Base EXCEPT !.UnitPrice = NaN, !.CustomerID = <<"C", "2">>]}

SessionMapping == create_product_mapping(<<Product(Some(1), J("tools"))>>)

\* the call of fn returned r and left the list as after
SessionCall(fn, r, after) ==
    /\ call.fn = "session"
    /\ session' =
          [session EXCEPT
              !.transactions = after,
              !.first[fn] = IF @ = Pending THEN r ELSE @,
              !.last = [fn |-> fn, result |-> r,
                        repeat |-> session.first[fn] # Pending]]
    /\ UNCHANGED <<call, ret, mainvars>>

Session_calculate_total_revenue ==
    /\ call.fn = "session"
    /\ SessionCall("calculate_total_revenue",
                   calculate_total_revenue(session.transactions),
                   session.transactions)

Session_region_wise_sales ==
    /\ call.fn = "session"
    /\ SessionCall("region_wise_sales",
                   region_wise_sales(session.transactions),
                   session.transactions)

Session_top_selling_products ==
    /\ call.fn = "session"
    /\ SessionCall("top_selling_products",
                   top_selling_products(session.transactions, 5),
                   session.transactions)

Session_customer_analysis ==
    /\ call.fn = "session"
    /\ SessionCall("customer_analysis",
                   customer_analysis(session.transactions),
                   session.transactions)

Session_daily_sales_trend ==
    /\ call.fn = "session"
    /\ SessionCall("daily_sales_trend",
                   [state |-> "returned",
                    value |-> daily_sales_trend(session.transactions)],
                   session.transactions)

Session_find_peak_sales_day ==
    /\ call.fn = "session"
    /\ SessionCall("find_peak_sales_day",
                   find_peak_sales_day(session.transactions),
                   session.transactions)

Session_low_performing_products ==
    /\ call.fn = "session"
    /\ SessionCall("low_performing_products",
                   low_performing_products(session.transactions, 10),
                   session.transactions)

Session_enrich_sales_data ==
    /\ call.fn = "session"
    /\ SessionCall("enrich_sales_data",
                   [state |-> "returned",
                    value |-> enrich_sales_data(session.transactions,
                                                SessionMapping)],
                   InputAfterEnrich(session.transactions, SessionMapping))

InitSession ==
    /\ NoMain
    /\ call = [fn |-> "session"] /\ ret = Pending
    /\ \E ts \in SeqUpTo(SessionPool, MaxSessionLen) :
          session = [state |-> "open", transactions |-> ts, original |-> ts,
                     first |-> [fn \in SessionFunctions |-> Pending],
                     last |-> [fn |-> "none", result |-> Pending,
                               repeat |-> FALSE]]
NextSession ==
    \/ Session_calculate_total_revenue
    \/ Session_region_wise_sales
    \/ Session_top_selling_products
    \/ Session_customer_analysis
    \/ Session_daily_sales_trend
    \/ Session_find_peak_sales_day
    \/ Session_low_performing_products
    \/ Session_enrich_sales_data
SpecSession == InitSession /\ [][NextSession]_vars

----------------------------------------------------------------------------
(* Claims about validate_and_filter, checked under SpecValidate *)

Returned == call.fn = "validate_and_filter" /\ ret.state = "returned"

NoFilterGiven ==
    /\ ~(call.region.some /\ call.region.v # <<>>)
    /\ ~call.min_amount.some
    /\ ~call.max_amount.some

WithinMin(t, a) ==
    ~a.some \/ (~t.UnitPrice.nan /\ a.v.v <= t.Quantity * t.UnitPrice.v)
WithinMax(t, b) ==
    ~b.some \/ (~t.UnitPrice.nan /\ t.Quantity * t.UnitPrice.v <= b.v.v)
RegionMatches(t, r) == ~(r.some /\ r.v # <<>>) \/ t.Region = r.v

\* the business rule of the specification's data model, on one transaction
PassesRule(t) ==
    /\ t.Quantity > 0
    /\ ~(~t.UnitPrice.nan /\ t.UnitPrice.v <= 0)
    /\ t.TransactionID # <<>> /\ Head(t.TransactionID) = "T"
    /\ t.ProductID # <<>> /\ Head(t.ProductID) = "P"
    /\ t.CustomerID # <<>> /\ Head(t.CustomerID) = "C"
    /\ t.Region # <<>>

\* C8 as stated: the returned list is the validated transactions whose
\* Region equals the region given and whose amount lies in
\* [min_amount, max_amount], in input order; filtered_by_region counts the
\* validated transactions the region filter removes, and filtered_by_amount
\* those the minimum filter removes plus those the maximum filter removes
\* from what then remains.
C8_Claim ==
    Returned =>
        LET V == SelectSeq(call.transactions, PassesRule)
            R == SelectSeq(V, LAMBDA t: RegionMatches(t, call.region))
            M == SelectSeq(R, LAMBDA t: WithinMin(t, call.min_amount))
            X == SelectSeq(M, LAMBDA t: WithinMax(t, call.max_amount))
        IN  /\ ret.valid = X
            /\ ret.summary.filtered_by_region = Len(V) - Len(R)
            /\ ret.summary.filtered_by_amount =
                  (Len(R) - Len(M)) + (Len(M) - Len(X))

\* C8 restricted to inputs without a NaN price (not a claim of its own: it
\* locates the divergence)
C8_FiniteOnly ==
    (\A i \in 1..Len(call.transactions) :
        ~call.transactions[i].UnitPrice.nan) => C8_Claim

\* a is b with some of its elements left out
RECURSIVE IsSubsequence(_, _)
IsSubsequence(a, b) ==
    IF a = <<>> THEN TRUE
    ELSE IF b = <<>> THEN FALSE
    ELSE IF Head(a) = Head(b) THEN IsSubsequence(Tail(a), Tail(b))
    ELSE IsSubsequence(a, Tail(b))

\* C16 as stated: whenever validate_and_filter returns, with any filters,
\* total_input = invalid + filtered_by_region + filtered_by_amount +
\* final_count, final_count is the length of the returned list, and the
\* returned list is the input list with some of its elements left out.
C16_Claim ==
    Returned =>
        /\ ret.summary.total_input =
              ret.summary.invalid + ret.summary.filtered_by_region
                + ret.summary.filtered_by_amount + ret.summary.final_count
        /\ ret.summary.final_count = Len(ret.valid)
        /\ IsSubsequence(ret.valid, call.transactions)

\* C16 restricted to inputs without a NaN price (not a claim of its own: it
\* locates the divergence)
C16_FiniteOnly ==
    (\A i \in 1..Len(call.transactions) :
        ~call.transactions[i].UnitPrice.nan) => C16_Claim

----------------------------------------------------------------------------
(* Claims about the analytics functions, checked under SpecAnalytics *)

\* the totals of the transactions T[1..k] that P selects, summed in order
RECURSIVE RevenueOf(_, _, _, _)
RevenueOf(T, field, key, k) ==
    IF k = 0 THEN Fl(0)
    ELSE IF T[k][field] = key
         THEN AddF(RevenueOf(T, field, key, k - 1),
                   MulIF(T[k].Quantity, T[k].UnitPrice))
         ELSE RevenueOf(T, field, key, k - 1)
RECURSIVE QuantityOf(_, _, _, _)
QuantityOf(T, field, key, k) ==
    IF k = 0 THEN 0
    ELSE QuantityOf(T, field, key, k - 1)
         + (IF T[k][field] = key THEN T[k].Quantity ELSE 0)
CountOf(T, field, key) ==
    Cardinality({i \in 1..Len(T) : T[i][field] = key})
KeysOf(T, field) == {T[i][field] : i \in 1..Len(T)}
FirstSeen(T, field, key) ==
    CHOOSE i \in 1..Len(T) :
        T[i][field] = key /\ \A j \in 1..(i - 1) : T[j][field] # key

PeakReturned == call.fn = "find_peak_sales_day" /\ ret.state = "returned"

TopReturned == call.fn = "top_selling_products" /\ ret.state = "returned"

\* C10: top_selling_products(T, n) returns at most n entries, one per
\* distinct ProductName (all of them when there are no more than n), each
\* with that product's summed quantity and revenue, in non-increasing order
\* of quantity, equal quantities in the order in which the names are first
\* met in T.
C10_TopSelling ==
    TopReturned =>
        LET T == call.transactions
            r == ret.value
            names == KeysOf(T, "ProductName")
        IN  /\ Len(r) <= call.n
            /\ Len(r) = (IF Cardinality(names) < call.n
                         THEN Cardinality(names) ELSE call.n)
            /\ \A i \in 1..Len(r) :
                  /\ r[i][1] \in names
                  /\ r[i][2] = QuantityOf(T, "ProductName", r[i][1], Len(T))
                  /\ r[i][3] = RevenueOf(T, "ProductName", r[i][1], Len(T))
            /\ \A i, j \in 1..Len(r) :
                  i < j =>
                     /\ r[i][1] # r[j][1]
                     /\ r[i][2] >= r[j][2]
                     /\ r[i][2] = r[j][2] =>
                           FirstSeen(T, "ProductName", r[i][1])
                             < FirstSeen(T, "ProductName", r[j][1])

\* three products, the two returned tie on quantity and a third is cut off
C10_Witness ==
    /\ TopReturned
    /\ call.n = 2
    /\ Cardinality(KeysOf(call.transactions, "ProductName")) = 3
    /\ Len(ret.value) = 2
    /\ ret.value[1][2] = ret.value[2][2]

LowReturned == call.fn = "low_performing_products" /\ ret.state = "returned"

\* C11: low_performing_products(T, threshold) returns one entry for each
\* distinct ProductName whose summed quantity over T is strictly less than
\* threshold and for no other, each with that summed quantity, in
\* non-decreasing order of it.
C11_LowPerforming ==
    (call.fn = "low_performing_products" /\ ret.state # "pending") =>
        /\ ret.state = "returned"
        /\ LET T == call.transactions
               r == ret.value
               Total(p) == QuantityOf(T, "ProductName", p, Len(T))
           IN  /\ {r[i][1] : i \in 1..Len(r)} =
                     {p \in KeysOf(T, "ProductName") :
                         Total(p) < call.threshold}
               /\ \A i \in 1..Len(r) : r[i][2] = Total(r[i][1])
               /\ \A i, j \in 1..Len(r) :
                     i < j => r[i][1] # r[j][1] /\ r[i][2] <= r[j][2]

\* with threshold 3: a product whose total is 3 is left out, one whose total
\* is 2 is returned, after one whose total is 1 that comes later in T
C11_Witness ==
    /\ LowReturned
    /\ call.threshold = 3
    /\ LET T == call.transactions
       IN  /\ Len(T) = 3
           /\ QuantityOf(T, "ProductName", T[1].ProductName, 3) = 3
           /\ T[2].Quantity = 2 /\ T[3].Quantity = 1
    /\ Len(ret.value) = 2
    /\ ret.value[1][2] = 1 /\ ret.value[2][2] = 2

\* the entries r, one for each value of field in T and for nothing else
OnePerKey(r, T, field) ==
    /\ Len(r) = Cardinality(KeysOf(T, field))
    /\ {r[i].key : i \in 1..Len(r)} = KeysOf(T, field)

\* C15 as stated: region_wise_sales lists its entries in non-increasing
\* total_sales and customer_analysis in non-increasing total_spent (no entry
\* comes after one with a smaller total), daily_sales_trend in ascending
\* order of the Date string; each has one entry for each distinct Region,
\* CustomerID or Date of the input, taken verbatim, and none on an empty
\* input.
C15_Claim ==
    (call.fn \in {"region_wise_sales", "customer_analysis",
                  "daily_sales_trend"} /\ ret.state # "pending") =>
        /\ ret.state = "returned"
        /\ LET T == call.transactions
               r == ret.value
           IN  /\ T = <<>> => r = <<>>
               /\ call.fn = "region_wise_sales" =>
                     /\ OnePerKey(r, T, "Region")
                     /\ \A i, j \in 1..Len(r) :
                           i < j =>
                              ~GtF(r[j].total_sales, r[i].total_sales)
               /\ call.fn = "customer_analysis" =>
                     /\ OnePerKey(r, T, "CustomerID")
                     /\ \A i, j \in 1..Len(r) :
                           i < j =>
                              ~GtF(r[j].total_spent, r[i].total_spent)
               /\ call.fn = "daily_sales_trend" =>
                     /\ OnePerKey(r, T, "Date")
                     /\ \A i, j \in 1..Len(r) :
                           i < j => StrLt(r[i].key, r[j].key)

\* C15 restricted to inputs without a NaN price (not a claim of its own: it
\* locates the divergence)
C15_FiniteOnly ==
    (\A i \in 1..Len(call.transactions) :
        ~call.transactions[i].UnitPrice.nan) => C15_Claim

----------------------------------------------------------------------------
(* Claims about enrich_sales_data, checked under SpecEnrich *)

EnrichReturned == call.fn = "enrich_sales_data" /\ ret.state = "returned"

\* the ProductID without its leading "P"s parses as an integer that is a key
\* of the mapping
HasCatalogKey(txn, mapping) ==
    LET parsed == int(lstrip_P(txn.ProductID))
    IN  parsed.ok /\ parsed.v \in DOMAIN mapping

\* C4 as stated: API_Match is true, with category, brand and rating copied
\* from the mapped entry, exactly when the ProductID stripped of its leading
\* "P" parses as an integer that is a key of the mapping; otherwise
\* API_Match is false and API_Category, API_Brand and API_Rating are null.
C4_Claim ==
    EnrichReturned =>
        \A i \in 1..Len(call.transactions) :
            LET txn == call.transactions[i]
                out == ret.value[i]
                m == call.product_mapping
            IN  IF HasCatalogKey(txn, m)
                THEN LET e == m[int(lstrip_P(txn.ProductID)).v]
                     IN  /\ out.API_Match = TRUE
                         /\ out.API_Category = e.category
                         /\ out.API_Brand = e.brand
                         /\ out.API_Rating = e.rating
                ELSE /\ out.API_Match = FALSE
                     /\ out.API_Category = JNull
                     /\ out.API_Brand = JNull
                     /\ out.API_Rating = JNull

\* C4 restricted to ProductIDs whose number is not 0 (not a claim of its
\* own: it locates the divergence)
C4_NonZeroOnly ==
    (\A i \in 1..Len(call.transactions) :
        int(lstrip_P(call.transactions[i].ProductID)).v # 0) => C4_Claim

TransactionFields ==
    {"TransactionID", "Date", "ProductID", "ProductName", "Quantity",
     "UnitPrice", "CustomerID", "Region"}
ApiFields == {"API_Category", "API_Brand", "API_Rating", "API_Match"}

\* C12: enrich_sales_data returns one record for each input transaction, in
\* input order; the record has the eight Transaction fields with the values
\* of the input, and the four fields API_Category, API_Brand, API_Rating and
\* API_Match, and no other field.
C12_Preserved ==
    EnrichReturned =>
        /\ Len(ret.value) = Len(call.transactions)
        /\ \A i \in 1..Len(call.transactions) :
              /\ DOMAIN ret.value[i] = TransactionFields \cup ApiFields
              /\ \A f \in TransactionFields :
                    ret.value[i][f] = call.transactions[i][f]

\* two transactions with different ProductIDs, the first one not matched and
\* the second one matched
C12_Witness ==
    /\ EnrichReturned
    /\ Len(call.transactions) = 2
    /\ call.transactions[1].ProductID # call.transactions[2].ProductID
    /\ ~ret.value[1].API_Match
    /\ ret.value[2].API_Match

----------------------------------------------------------------------------
(* Claims about a run of main(), checked under Spec *)

\* the transactions of the input file that pass the business rule
UsableInput ==
    IF file.kind # "present" THEN <<>>
    ELSE SelectSeq(parse_transactions(read_sales_data(file).value),
                   PassesRule)

\* C2 as stated: when the input file is missing or yields no valid
\* transaction, no exception leaves main(), and when main() has returned a
\* complete report with zero-filled aggregates has been written.
C2_Claim ==
    (file.kind # "unreadable" /\ UsableInput = <<>>) =>
        /\ pc # "propagated"
        /\ pc = "returned" =>
              /\ exc = "none"
              /\ report.state = "complete"
              /\ report.total_transactions = 0
              /\ report.total_revenue = Fl(0)

\* C3 as stated: no exception raised in any stage leaves main(); a run ends
\* with main() having returned after printing a message.
C3_Claim ==
    /\ pc # "propagated"
    /\ pc = "returned" => message # "none"

\* C5 as stated: in a run of main() no function of the pipeline is called
\* more than once, and a run that completes has fetched the catalog exactly
\* once.
C5_Claim ==
    /\ \A fn \in Functions : calls[fn] <= 1
    /\ (pc = "returned" /\ message = "complete") =>
          calls["fetch_all_products"] = 1

FetchFailed ==
    last_fetch.response.kind \in
        {"ConnectionError", "HTTPError", "not_json", "json_array"}

\* the positions at which the enriched list comes from the last fetch done
EnrichedFromLastFetch ==
    pc \in {"save1", "report1", "read2", "parse2", "options2", "prompt2",
            "validate2", "analytics2", "fetch2", "save2", "report2"}

\* C6 as stated: when the catalog fetch fails (no connection, a non-2xx
\* status, a malformed payload) fetch_all_products returns an empty list and
\* raises nothing, and the enrichment that follows gives API_Match = false
\* for every transaction.
C6_Claim ==
    FetchFailed =>
        /\ last_fetch.result.state = "returned"
        /\ last_fetch.result.value = <<>>
        /\ EnrichedFromLastFetch =>
              \A i \in 1..Len(enriched) : enriched[i].API_Match = FALSE

\* C6 restricted to the failures that are no malformed payload (not a claim
\* of its own: it locates the divergence)
C6_TransportOnly ==
    last_fetch.response.kind \in {"ConnectionError", "HTTPError"} => C6_Claim

\* C7: validate_and_filter keeps exactly the transactions that pass the
\* business rule (Quantity > 0, not UnitPrice <= 0, the three prefixes,
\* Region not empty), in order, and counts every other one once in
\* invalidCount; and every collection main() passes to the analytics
\* functions, to enrich_sales_data and to generate_sales_report holds only
\* transactions that pass the rule.
C7_Rejected ==
    /\ \A v \in validated :
          v.result.state = "returned" =>
             LET kept == SelectSeq(v.input, PassesRule)
             IN  /\ v.result.valid = kept
                 /\ v.result.invalid_count = Len(v.input) - Len(kept)
    /\ \A h \in handed :
          \A i \in 1..Len(h.collection) : PassesRule(h.collection[i])

\* a run that completed with one transaction rejected and one kept, the
\* kept one having reached the report
C7_Witness ==
    /\ pc = "returned" /\ message = "complete"
    /\ invalid_count = 1
    /\ Len(valid) = 1
    /\ [to |-> "report", collection |-> valid] \in handed
    /\ \E v \in validated : \E i \in 1..Len(v.input) : ~PassesRule(v.input[i])

\* the position of the k-th "|" of line: 0 for k = 0, and one past the end
\* of the line when it has fewer than k
BarAt(line, k) ==
    LET bars == {i \in 1..Len(line) : line[i] = "|"}
    IN  IF k = 0 THEN 0
        ELSE IF k > Cardinality(bars) THEN Len(line) + 1
        ELSE CHOOSE i \in bars : Cardinality({j \in bars : j < i}) = k - 1

\* the k-th field of line
FieldOf(line, k) == SubSeq(line, BarAt(line, k - 1) + 1, BarAt(line, k) - 1)

\* the line has exactly 8 fields, and its Quantity and UnitPrice parse once
\* their commas are removed
YieldsRecord(line) ==
    /\ Cardinality({i \in 1..Len(line) : line[i] = "|"}) = 7
    /\ int(RemoveCommas(FieldOf(line, 5))).ok
    /\ float(RemoveCommas(FieldOf(line, 6))).ok

RecordOf(line) ==
    [TransactionID |-> FieldOf(line, 1), Date |-> FieldOf(line, 2),
     ProductID |-> FieldOf(line, 3),
     ProductName |-> RemoveCommas(FieldOf(line, 4)),
     Quantity |-> int(RemoveCommas(FieldOf(line, 5))).v,
     UnitPrice |-> float(RemoveCommas(FieldOf(line, 6))).v,
     CustomerID |-> FieldOf(line, 7), Region |-> FieldOf(line, 8)]

\* what parse_transactions yields, and what the validator then counts
C14_Records ==
    LET kept == SelectSeq(raw_lines, YieldsRecord)
        records == [i \in 1..Len(kept) |-> RecordOf(kept[i])]
    IN  /\ calls["parse_transactions"] >= 1 =>
              /\ transactions = records
              /\ Len(transactions) <= Len(raw_lines)
        /\ \A v \in validated :
              /\ \A i \in 1..Len(v.input) :
                    \E j \in 1..Len(records) : v.input[i] = records[j]
              /\ v.result.state = "returned" =>
                    /\ v.result.summary.total_input = Len(v.input)
                    /\ v.result.summary.total_input <= Len(kept)
                    /\ v.result.invalid_count =
                          Len(SelectSeq(v.input, LAMBDA t: ~PassesRule(t)))

\* C14: parse_transactions raises nothing (the step that calls it leaves no
\* exception and the run goes on); it yields one record, in input order, for
\* each line that has exactly 8 fields and whose Quantity and UnitPrice parse
\* after comma removal, and none for any other line, so its output is no
\* longer than its input; and validate_and_filter counts in total_input and
\* invalidCount only records of such lines.
C14_Parse ==
    /\ []C14_Records
    /\ [][calls'["parse_transactions"] # calls["parse_transactions"] =>
            (exc' = exc /\ pc' \notin {"propagated", "returned"})]_vars

\* a run that completed on a file of two data lines, one of them skipped by
\* parse_transactions: the validator counted one record and rejected none
C14_Witness ==
    /\ pc = "returned" /\ message = "complete"
    /\ Len(raw_lines) = 2
    /\ Len(transactions) = 1
    /\ summary.total_input = 1 /\ summary.invalid = 0

----------------------------------------------------------------------------
(* Claims about sequences of calls on one list, checked under SpecSession *)

====
